---- MODULE Spec2Model ----
(***************************************************************************)
(* State-machine model of blockstack_client/rpc_runner.py, the command     *)
(* dispatcher that starts, stops, restarts or queries the local API        *)
(* daemon.  Python strings are sequences of one-character strings, so      *)
(* that int(), os.path.basename, os.path.join, str.format and print can    *)
(* be computed the way the interpreter computes them.  sys.argv[i] of the  *)
(* source is argv[i + 1] here (TLA+ sequences start at 1).                 *)
(***************************************************************************)
EXTENDS Integers, Sequences, FiniteSets, TLC

VARIABLES argv, environ, pc, command, portnum, config_dir, config_path,
          calls, out, err, exits

vars == <<argv, environ, pc, command, portnum, config_dir, config_path,
          calls, out, err, exits>>

(* ------------------------------ bounds --------------------------------- *)

\* largest len(sys.argv) explored (program name included)
MaxArgc == 4

(* --------------------------- string literals --------------------------- *)

START == <<"s", "t", "a", "r", "t">>
START_FOREGROUND == <<"s", "t", "a", "r", "t", "-", "f", "o", "r", "e", "g", "r", "o", "u", "n", "d">>
STATUS == <<"s", "t", "a", "t", "u", "s">>
STOP == <<"s", "t", "o", "p">>
RESTART == <<"r", "e", "s", "t", "a", "r", "t">>
ALIVE == <<"A", "l", "i", "v", "e">>
DEAD == <<"D", "e", "a", "d">>
USAGE_FMT_TAIL == <<" ", "C", "O", "M", "M", "A", "N", "D", " ", "P", "O", "R", "T", " ", "[", "c", "o", "n", "f", "i", "g", "_", "p", "a", "t", "h", "]">>
WALLET_PASSWORD_VAR == "BLOCKSTACK_CLIENT_WALLET_PASSWORD"

\* str(sys.stderr), the text print() renders for the file object
STDERR_STR == <<"<", "o", "p", "e", "n", " ", "f", "i", "l", "e", " ", "'", "<", "s", "t", "d", "e", "r", "r", ">", "'", ",", " ", "m", "o", "d", "e", " ", "'", "w", "'", ">">>

\* defaults supplied by the config module
CONFIG_DIR == <<"~", "/", ".", "b", "l", "o", "c", "k", "s", "t", "a", "c", "k">>
CONFIG_PATH == <<"~", "/", ".", "b", "l", "o", "c", "k", "s", "t", "a", "c", "k", "/", "c", "l", "i", "e", "n", "t", ".", "i", "n", "i">>

\* what traceback.print_exc() / the interpreter write for an exception
TRACE_INDEX_ERROR == <<"I", "n", "d", "e", "x", "E", "r", "r", "o", "r", ":", " ", "l", "i", "s", "t", " ", "i", "n", "d", "e", "x", " ", "o", "u", "t", " ", "o", "f", " ", "r", "a", "n", "g", "e">>
TRACE_VALUE_ERROR == <<"V", "a", "l", "u", "e", "E", "r", "r", "o", "r", ":", " ", "i", "n", "v", "a", "l", "i", "d", " ", "l", "i", "t", "e", "r", "a", "l", " ", "f", "o", "r", " ", "i", "n", "t", "(", ")", " ", "w", "i", "t", "h", " ", "b", "a", "s", "e", " ", "1", "0">>
TRACE_UNCAUGHT == <<"T", "r", "a", "c", "e", "b", "a", "c", "k", " ", "(", "m", "o", "s", "t", " ", "r", "e", "c", "e", "n", "t", " ", "c", "a", "l", "l", " ", "l", "a", "s", "t", ")">>

\* Python's None, and a str object, as passed in keyword arguments
None == [type |-> "NoneType", val |-> <<>>]
Str(s) == [type |-> "str", val |-> s]

(* ------------------------------ inputs --------------------------------- *)

PROG == <<"p", "r", "o", "g">>
Commands == {START, START_FOREGROUND, STATUS, STOP, RESTART,
             <<"f", "r", "o", "b", "n", "i", "c", "a", "t", "e">>, <<"S", "T", "A", "R", "T">>, <<>>}
PortArgs == {<<"1", "6", "2", "6", "8">>, <<"8">>, <<"-", "5">>, <<" ", "7", " ">>, <<"+", "0", "9">>,
             <<>>, <<"a">>, <<"1", "x">>, <<"-">>, <<"1", " ", "2">>}
DirArgs == {<<"/", "t", "m", "p", "/", "c", "f", "g">>, <<"r", "e", "l", "/">>, <<>>}
ExtraArgs == {<<"x">>}
Passwords == {<<"s", "3", "c", "r", "e", "t">>, <<>>}
Outcomes == {"True", "False", "raise"}

\* the argument allowed at position i of sys.argv (i counted as in Python)
ArgChoices(i) ==
    IF i = 0 THEN {PROG}
    ELSE IF i = 1 THEN Commands
    ELSE IF i = 2 THEN PortArgs
    ELSE IF i = 3 THEN DirArgs
    ELSE ExtraArgs

ArgvSpace ==
    UNION { { a \in [1..n -> UNION {ArgChoices(i) : i \in 0..(n - 1)}] :
                \A k \in 1..n : a[k] \in ArgChoices(k - 1) } : n \in 1..MaxArgc }

EnvironSpace ==
    { [k \in {} |-> <<>>] } \cup
    { [k \in {WALLET_PASSWORD_VAR} |-> p] : p \in Passwords }

(* ----------------------- interpreter functions ------------------------- *)

Digits == {"0", "1", "2", "3", "4", "5", "6", "7", "8", "9"}
Whitespace == {" "}

DigitVal(c) ==
    CASE c = "0" -> 0 [] c = "1" -> 1 [] c = "2" -> 2 [] c = "3" -> 3
      [] c = "4" -> 4 [] c = "5" -> 5 [] c = "6" -> 6 [] c = "7" -> 7
      [] c = "8" -> 8 [] c = "9" -> 9

RECURSIVE LStrip(_)
LStrip(s) ==
    IF s # <<>> /\ Head(s) \in Whitespace THEN LStrip(Tail(s)) ELSE s

RECURSIVE RStrip(_)
RStrip(s) ==
    IF s # <<>> /\ s[Len(s)] \in Whitespace
    THEN RStrip(SubSeq(s, 1, Len(s) - 1)) ELSE s

Strip(s) == RStrip(LStrip(s))

\* the text after an optional leading sign
Unsigned(s) ==
    IF s # <<>> /\ Head(s) \in {"+", "-"} THEN Tail(s) ELSE s

RECURSIVE DigitsValue(_)
DigitsValue(s) ==
    IF s = <<>> THEN 0
    ELSE 10 * DigitsValue(SubSeq(s, 1, Len(s) - 1)) + DigitVal(s[Len(s)])

\* int(s) returns (rather than raising ValueError) for these strings
IsIntLiteral(s) ==
    LET u == Unsigned(Strip(s))
    IN  u # <<>> /\ \A k \in 1..Len(u) : u[k] \in Digits

\* int(s), base 10
int(s) ==
    LET t == Strip(s)
        v == DigitsValue(Unsigned(t))
    IN  IF t # <<>> /\ Head(t) = "-" THEN 0 - v ELSE v

\* os.path.basename(p): what follows the last "/"
basename(p) ==
    LET slashes == { k \in 1..Len(p) : p[k] = "/" }
        last == IF slashes = {} THEN 0
                ELSE CHOOSE k \in slashes : \A j \in slashes : j <= k
    IN  SubSeq(p, last + 1, Len(p))

\* os.path.join(a, b) (posixpath)
join(a, b) ==
    IF b # <<>> /\ Head(b) = "/" THEN b
    ELSE IF a = <<>> \/ a[Len(a)] = "/" THEN a \o b
    ELSE a \o <<"/">> \o b

\* '{} COMMAND PORT [config_path]'.format(sys.argv[0])
usage == argv[1] \o USAGE_FMT_TAIL

\* print(a, b) under print_function: both objects are positional, so the
\* text str(a) + " " + str(b) + "\n" is written to sys.stdout
PrintText(a, b) == a \o <<" ">> \o b \o <<"\n">>

\* os.environ.get(key, default)
environ_get(key, default) ==
    IF key \in DOMAIN environ THEN Str(environ[key]) ELSE default

\* variant: the status is 0 whatever rc is
ExitStatusAlwaysZero(rc) == 0

\* 0 if rc else 1
ExitStatus(rc) == IF rc = "True" THEN 0 ELSE 1

(* ------------------------- argument parsing ---------------------------- *)

\* the try block of lines 39-46 raises nothing
ArgsParse ==
    Len(argv) > 2 /\ IsIntLiteral(argv[3])

\* the exception the try block raises otherwise
ParseException ==
    IF Len(argv) <= 2 THEN TRACE_INDEX_ERROR ELSE TRACE_VALUE_ERROR

\* variant: the length test is off by one (len(sys.argv) > 4)
ResolveConfigDirOffByOne ==
    IF Len(argv) > 4 THEN argv[4] ELSE CONFIG_DIR

ResolveConfigDir ==
    IF Len(argv) > 3 THEN argv[4] ELSE CONFIG_DIR

ResolveConfigPath ==
    IF Len(argv) > 3 THEN join(argv[4], basename(CONFIG_PATH)) ELSE CONFIG_PATH

(* ------------------------------- state --------------------------------- *)

Init ==
    /\ argv \in ArgvSpace
    /\ environ \in EnvironSpace
    /\ pc = "parse"
    /\ command = <<>>
    /\ portnum = 0
    /\ config_dir = <<>>
    /\ config_path = <<>>
    /\ calls = <<>>
    /\ out = <<>>
    /\ err = <<>>
    /\ exits = <<>>

\* sys.exit(code): the process ends with that status
SysExit(code) ==
    /\ pc' = "exited"
    /\ exits' = Append(exits, code)

\* a lifecycle call and what came back from it
Call(fn, args, kwargs, result) ==
    calls' = Append(calls, [fn |-> fn, args |-> args, kwargs |-> kwargs,
                            result |-> result])

\* an exception nobody catches: traceback on stderr, status 1
Uncaught ==
    /\ err' = Append(err, TRACE_UNCAUGHT)
    /\ pc' = "exited"
    /\ exits' = Append(exits, 1)

\* lines 38-46, no exception
ParseArgs ==
    /\ pc = "parse"
    /\ ArgsParse
    /\ command' = argv[2]
    /\ portnum' = int(argv[3])
    /\ config_dir' = ResolveConfigDir
    /\ config_path' = ResolveConfigPath
    /\ pc' = "dispatch"
    /\ UNCHANGED <<argv, environ, calls, out, err, exits>>

\* variant: the except branch exits without printing the usage text
ArgErrorNoUsage ==
    /\ pc = "parse"
    /\ ~ArgsParse
    /\ err' = Append(err, ParseException)
    /\ SysExit(1)
    /\ UNCHANGED <<argv, environ, command, portnum, config_dir, config_path, calls, out>>

\* lines 47-50
ArgError ==
    /\ pc = "parse"
    /\ ~ArgsParse
    /\ err' = Append(err, ParseException)
    /\ out' = Append(out, PrintText(usage, STDERR_STR))
    /\ SysExit(1)
    /\ UNCHANGED <<argv, environ, command, portnum, config_dir, config_path, calls>>

\* lines 52-56
CmdStart ==
    /\ pc = "dispatch"
    /\ command = START
    /\ \E r \in Outcomes :
         LET passwd == environ_get(WALLET_PASSWORD_VAR, None) IN
         /\ Call("local_rpc_start", <<portnum>>,
                 [config_dir |-> Str(config_dir), password |-> passwd], r)
         /\ IF r = "raise" THEN Uncaught
            ELSE SysExit(ExitStatus(r)) /\ UNCHANGED err
    /\ UNCHANGED <<argv, environ, command, portnum, config_dir, config_path, out>>

\* lines 57-60
CmdStartForeground ==
    /\ pc = "dispatch"
    /\ command # START
    /\ command = START_FOREGROUND
    /\ \E r \in Outcomes :
         LET passwd == environ_get(WALLET_PASSWORD_VAR, None) IN
         /\ Call("local_rpc_start", <<portnum>>,
                 [config_dir |-> Str(config_dir), password |-> passwd,
                  foreground |-> [type |-> "bool", val |-> <<"T">>]], r)
         /\ IF r = "raise" THEN Uncaught
            ELSE SysExit(ExitStatus(r)) /\ UNCHANGED err
    /\ UNCHANGED <<argv, environ, command, portnum, config_dir, config_path, out>>

\* variant: both branches of the status test print Alive
CmdStatusAlwaysAlive ==
    /\ pc = "dispatch"
    /\ command \notin {START, START_FOREGROUND}
    /\ command = STATUS
    /\ \E r \in Outcomes :
         /\ Call("local_rpc_status", <<>>, [config_dir |-> Str(config_dir)], r)
         /\ CASE r = "raise" -> Uncaught /\ UNCHANGED out
              [] r = "True" ->
                   /\ out' = Append(out, PrintText(ALIVE, STDERR_STR))
                   /\ SysExit(0)
                   /\ UNCHANGED err
              [] r = "False" ->
                   /\ out' = Append(out, PrintText(ALIVE, STDERR_STR))
                   /\ SysExit(1)
                   /\ UNCHANGED err
    /\ UNCHANGED <<argv, environ, command, portnum, config_dir, config_path>>

\* lines 61-68
CmdStatus ==
    /\ pc = "dispatch"
    /\ command \notin {START, START_FOREGROUND}
    /\ command = STATUS
    /\ \E r \in Outcomes :
         /\ Call("local_rpc_status", <<>>, [config_dir |-> Str(config_dir)], r)
         /\ CASE r = "raise" -> Uncaught /\ UNCHANGED out
              [] r = "True" ->
                   /\ out' = Append(out, PrintText(ALIVE, STDERR_STR))
                   /\ SysExit(0)
                   /\ UNCHANGED err
              [] r = "False" ->
                   /\ out' = Append(out, PrintText(DEAD, STDERR_STR))
                   /\ SysExit(1)
                   /\ UNCHANGED err
    /\ UNCHANGED <<argv, environ, command, portnum, config_dir, config_path>>

\* lines 69-71
CmdStop ==
    /\ pc = "dispatch"
    /\ command \notin {START, START_FOREGROUND, STATUS}
    /\ command = STOP
    /\ \E r \in Outcomes :
         /\ Call("local_rpc_stop", <<>>, [config_dir |-> Str(config_dir)], r)
         /\ IF r = "raise" THEN Uncaught
            ELSE SysExit(ExitStatus(r)) /\ UNCHANGED err
    /\ UNCHANGED <<argv, environ, command, portnum, config_dir, config_path, out>>

\* variant: restart goes on to start whatever stop returned
RestartStopIgnoresResult ==
    /\ pc = "dispatch"
    /\ command \notin {START, START_FOREGROUND, STATUS, STOP}
    /\ command = RESTART
    /\ \E r \in Outcomes :
         /\ Call("local_rpc_stop", <<>>, [config_dir |-> Str(config_dir)], r)
         /\ IF r = "raise" THEN Uncaught
            ELSE pc' = "restart_start" /\ UNCHANGED <<exits, err>>
    /\ UNCHANGED <<argv, environ, command, portnum, config_dir, config_path, out>>

\* variant: restart tries stop a second time when the first attempt failed
RestartStopRetries ==
    /\ pc = "dispatch"
    /\ command \notin {START, START_FOREGROUND, STATUS, STOP}
    /\ command = RESTART
    /\ \E r \in Outcomes :
         /\ Call("local_rpc_stop", <<>>, [config_dir |-> Str(config_dir)], r)
         /\ CASE r = "raise" -> Uncaught
              [] r = "False" ->
                   IF calls = <<>>
                   THEN pc' = "dispatch" /\ UNCHANGED <<exits, err>>
                   ELSE SysExit(1) /\ UNCHANGED err
              [] r = "True" -> pc' = "restart_start" /\ UNCHANGED <<exits, err>>
    /\ UNCHANGED <<argv, environ, command, portnum, config_dir, config_path, out>>

\* lines 72-76: the stop step of restart
RestartStop ==
    /\ pc = "dispatch"
    /\ command \notin {START, START_FOREGROUND, STATUS, STOP}
    /\ command = RESTART
    /\ \E r \in Outcomes :
         /\ Call("local_rpc_stop", <<>>, [config_dir |-> Str(config_dir)], r)
         /\ CASE r = "raise" -> Uncaught
              [] r = "False" -> SysExit(1) /\ UNCHANGED err
              [] r = "True" -> pc' = "restart_start" /\ UNCHANGED <<exits, err>>
    /\ UNCHANGED <<argv, environ, command, portnum, config_dir, config_path, out>>

\* variant: the result of the start step is dropped and restart reports success
RestartStartDropsResult ==
    /\ pc = "restart_start"
    /\ \E r \in Outcomes :
         /\ Call("local_rpc_start", <<portnum>>, [config_dir |-> Str(config_dir)], r)
         /\ IF r = "raise" THEN Uncaught
            ELSE SysExit(0) /\ UNCHANGED err
    /\ UNCHANGED <<argv, environ, command, portnum, config_dir, config_path, out>>

\* lines 77-78: the start step of restart
RestartStart ==
    /\ pc = "restart_start"
    /\ \E r \in Outcomes :
         /\ Call("local_rpc_start", <<portnum>>, [config_dir |-> Str(config_dir)], r)
         /\ IF r = "raise" THEN Uncaught
            ELSE SysExit(ExitStatus(r)) /\ UNCHANGED err
    /\ UNCHANGED <<argv, environ, command, portnum, config_dir, config_path, out>>

\* variant: the else branch lacks its sys.exit(1), so the script ends with 0
CmdElseNoExit ==
    /\ pc = "dispatch"
    /\ command \notin {START, START_FOREGROUND, STATUS, STOP, RESTART}
    /\ out' = Append(out, PrintText(usage, STDERR_STR))
    /\ pc' = "exited"
    /\ exits' = Append(exits, 0)
    /\ UNCHANGED <<argv, environ, command, portnum, config_dir, config_path, calls, err>>

\* lines 79-81
CmdElse ==
    /\ pc = "dispatch"
    /\ command \notin {START, START_FOREGROUND, STATUS, STOP, RESTART}
    /\ out' = Append(out, PrintText(usage, STDERR_STR))
    /\ SysExit(1)
    /\ UNCHANGED <<argv, environ, command, portnum, config_dir, config_path, calls, err>>

Next ==
    \/ ParseArgs
    \/ ArgError
    \/ CmdStart
    \/ CmdStartForeground
    \/ CmdStatus
    \/ CmdStop
    \/ RestartStop
    \/ RestartStart
    \/ CmdElse

Spec == Init /\ [][Next]_vars

FairSpec == Spec /\ WF_vars(Next)

(* ----------------------- vocabulary of the claims ---------------------- *)

Exited == pc = "exited"

\* the port argument is present and int() accepts it
ValidArgs == Len(argv) >= 3 /\ IsIntLiteral(argv[3])

\* the invocation is `prog c PORT [dir]` with an integer PORT
Invoked(c) == ValidArgs /\ argv[2] = c

Recognised == {START, START_FOREGROUND, STATUS, STOP, RESTART}

CallIdx(fn) == { i \in 1..Len(calls) : calls[i].fn = fn }

Returned(i, r) == i \in 1..Len(calls) /\ calls[i].result = r

NoRaise == \A i \in 1..Len(calls) : calls[i].result # "raise"

Contains(text, word) ==
    \E k \in 0..(Len(text) - Len(word)) : SubSeq(text, k + 1, k + Len(word)) = word

\* the word appears in something the process wrote, on either stream
Printed(word) ==
    \/ \E i \in 1..Len(out) : Contains(out[i], word)
    \/ \E i \in 1..Len(err) : Contains(err[i], word)

(* ------------------------------- claims -------------------------------- *)

\* C1: for `restart`, the first lifecycle call is stop; when stop returned
\* false, start is never called and the exit code is 1; a start call is only
\* ever made after a stop call that returned true.
Thm_C1 ==
    Invoked(RESTART) =>
        /\ Len(calls) >= 1 => calls[1].fn = "local_rpc_stop"
        /\ Returned(1, "False") =>
              /\ CallIdx("local_rpc_start") = {}
              /\ Exited /\ exits = <<1>>
        /\ \A i \in CallIdx("local_rpc_start") :
              i > 1 /\ calls[i - 1].fn = "local_rpc_stop" /\ Returned(i - 1, "True")

Wit_C1 ==
    /\ Invoked(RESTART) /\ Exited
    /\ Len(calls) = 1 /\ Returned(1, "False") /\ exits = <<1>>

\* C2: for `restart` with an integer port, once the process has exited and no
\* call raised, the exit code is 0 exactly when stop and start both returned
\* true; after stop returned true, start returning false gives exit code 1.
Thm_C2 ==
    (Invoked(RESTART) /\ Exited /\ NoRaise) =>
        /\ exits = <<0>> <=>
              (Len(calls) = 2 /\ Returned(1, "True") /\ Returned(2, "True"))
        /\ (Returned(1, "True") /\ Returned(2, "False")) => exits = <<1>>
        /\ Returned(1, "True") => Len(calls) = 2 /\ calls[2].fn = "local_rpc_start"

Wit_C2 ==
    /\ Invoked(RESTART) /\ Exited
    /\ Returned(1, "True") /\ Returned(2, "True") /\ exits = <<0>>

\* C3: with fewer than two arguments or a port that int() rejects, whatever
\* the command, no lifecycle call is ever made, and the process ends with
\* exit code 1 having printed the usage text.
Thm_C3 ==
    ~ValidArgs =>
        /\ calls = <<>>
        /\ pc \in {"parse", "exited"}
        /\ Exited => exits = <<1>> /\ Printed(usage)

Wit_C3 ==
    /\ Len(argv) >= 3 /\ argv[2] = START /\ ~IsIntLiteral(argv[3])
    /\ Exited /\ exits = <<1>> /\ Printed(usage)

\* C4: for `status` with an integer port, only status is ever called, once;
\* when it returned true the process printed Alive (not Dead) and exited 0,
\* when it returned false it printed Dead (not Alive) and exited 1.
Thm_C4 ==
    Invoked(STATUS) =>
        /\ \A i \in 1..Len(calls) : calls[i].fn = "local_rpc_status"
        /\ Len(calls) <= 1
        /\ Exited => Len(calls) = 1
        /\ Returned(1, "True") =>
              Printed(ALIVE) /\ ~Printed(DEAD) /\ exits = <<0>>
        /\ Returned(1, "False") =>
              Printed(DEAD) /\ ~Printed(ALIVE) /\ exits = <<1>>

Wit_C4 ==
    /\ Invoked(STATUS) /\ Exited
    /\ Returned(1, "True") /\ Printed(ALIVE) /\ exits = <<0>>

\* C5: for `start`, `start-foreground` and `stop` with an integer port, the
\* process makes exactly one lifecycle call (start, start, stop) and exits 0
\* when the call returned true and 1 when it returned false.
Thm_C5 ==
    \A c \in {START, START_FOREGROUND, STOP} :
        Invoked(c) =>
            /\ Len(calls) <= 1
            /\ Exited <=> Len(calls) = 1
            /\ \A i \in 1..Len(calls) :
                  calls[i].fn = IF c = STOP THEN "local_rpc_stop" ELSE "local_rpc_start"
            /\ Returned(1, "True") => exits = <<0>>
            /\ Returned(1, "False") => exits = <<1>>

Wit_C5 ==
    /\ Invoked(STOP) /\ Exited
    /\ Len(calls) = 1 /\ Returned(1, "False") /\ exits = <<1>>

\* C6: every start call (from `start`, `start-foreground` or the second step
\* of `restart`) receives as password the value of
\* BLOCKSTACK_CLIENT_WALLET_PASSWORD when it is set, and None when it is not.
Cex_C6 ==
    \A i \in CallIdx("local_rpc_start") :
        /\ "password" \in DOMAIN calls[i].kwargs
        /\ calls[i].kwargs.password =
              IF WALLET_PASSWORD_VAR \in DOMAIN environ
              THEN Str(environ[WALLET_PASSWORD_VAR]) ELSE None

\* C7: every write of the usage text and of the status words goes to the
\* error stream; nothing is ever written to standard output.
Cex_C7 ==
    /\ out = <<>>
    /\ (Exited /\ Invoked(STATUS) /\ Returned(1, "True")) =>
          \E i \in 1..Len(err) : Contains(err[i], ALIVE)

\* C8: for a recognised command with an integer port, every lifecycle call
\* receives as config_dir the third argument when there is one and the
\* default directory of the config module otherwise.
Thm_C8 ==
    (ValidArgs /\ argv[2] \in Recognised) =>
        /\ Exited => calls # <<>>
        /\ \A i \in 1..Len(calls) :
              /\ "config_dir" \in DOMAIN calls[i].kwargs
              /\ calls[i].kwargs.config_dir =
                    Str(IF Len(argv) >= 4 THEN argv[4] ELSE CONFIG_DIR)

Wit_C8 ==
    /\ Invoked(RESTART) /\ Len(argv) >= 4 /\ argv[4] # CONFIG_DIR
    /\ Len(calls) = 2
    /\ calls[2].kwargs.config_dir = Str(argv[4])

\* C9: for a command that is none of the five recognised ones, given with an
\* integer port, no lifecycle call is ever made, and the process ends with
\* exit code 1 having printed the usage text.
Thm_C9 ==
    (ValidArgs /\ argv[2] \notin Recognised) =>
        /\ calls = <<>>
        /\ Exited => exits = <<1>> /\ Printed(usage) /\ err = <<>>

Wit_C9 ==
    /\ ValidArgs /\ argv[2] \notin Recognised /\ argv[2] # <<>>
    /\ Exited /\ exits = <<1>> /\ Printed(usage)

\* C10, safety part: at most one lifecycle call, or two for `restart` (stop,
\* then start); no lifecycle function is called twice; the process exits at
\* most once, with code 0 or 1, and makes no call after exiting.
C10Safety ==
    /\ Len(calls) <= 2
    /\ Len(calls) = 2 =>
          /\ Len(argv) >= 2 /\ argv[2] = RESTART
          /\ calls[1].fn = "local_rpc_stop" /\ calls[2].fn = "local_rpc_start"
    /\ \A i, j \in 1..Len(calls) : calls[i].fn = calls[j].fn => i = j
    /\ Len(exits) <= 1
    /\ Exited <=> Len(exits) = 1
    /\ \A k \in 1..Len(exits) : exits[k] \in {0, 1}

\* C10: every invocation runs to completion without retry: the safety part
\* holds throughout, and the process eventually exits.
Thm_C10 == []C10Safety /\ <>Exited

Wit_C10 ==
    /\ Exited /\ Len(exits) = 1 /\ Len(calls) = 2
    /\ calls[1].fn = "local_rpc_stop" /\ calls[2].fn = "local_rpc_start"

====
